---- MODULE Spec2Model ----
(***************************************************************************)
(* SHPointPower: spectral_power (spherical harmonic coefficients and power *)
(* per degree of scattered points) and power_corr (correlation per degree  *)
(* of two coefficient sets, with confidence bounds).                       *)
(*                                                                         *)
(* Numbers.  Coefficients are reals in the program; here they are exact    *)
(* integers.  Angles are counted in quarter turns (90 degrees), where      *)
(* cos and sin are exact.  Three kinds of real value that integers cannot  *)
(* hold are kept in exact symbolic form:                                   *)
(*   Power(l)  = 4*pi * sumsq / den         as [sumsq, den]                *)
(*   r(l)      = num / sqrt(rad)            as [num, rad]                  *)
(*   bound     = sign * t*sqrt(1/(df+t^2)), t = t.ppf(q/2000, df)          *)
(*                                          as [sign, q, df]               *)
(* A value with den = 0 or rad = 0 is non-finite.  A confidence level is   *)
(* held in thousandths (0.95 is 950).                                      *)
(*                                                                         *)
(* Tables.  A numpy array is a sequence (position 1 is Python's index 0).  *)
(* A pandas Series is a function from its index labels to its values; a    *)
(* label whose value is NaN is left out of the function's domain.          *)
(***************************************************************************)
EXTENDS Integers, Sequences, FiniteSets, TLC

\* Bounds of the model.
MaxDegree == 2
MaxSamples == 2
MaxSeed == 2
MaxLevels == 2

\* Program constants.
SpectralDefaultDegree == 20
CorrDefaultDegree == 0
CorrDocumentedDegree == 20

VARIABLES
    mode,       \* "pipeline": spectral_power twice, then power_corr; "direct": power_corr alone
    pc,         \* position of the run
    samplesA,   \* dataset A: sequence of <<lat, long>>
    samplesB,   \* dataset B
    degArg,     \* the degree argument: [given, val]
    levelsArg,  \* the confidence_levels argument: [given, val]
    resA,       \* what spectral_power returned for A
    resB,       \* what spectral_power returned for B
    cin,        \* the four Series handed to power_corr
    corr        \* what power_corr returned

vars == <<mode, pc, samplesA, samplesB, degArg, levelsArg, resA, resB, cin, corr>>

----------------------------------------------------------------------------
\* numpy and pandas primitives

\* The sum of f[i] over the i in lo..hi that S holds, by halves
RECURSIVE SumRange(_, _, _, _)
SumRange(f, S, lo, hi) ==
    IF lo > hi THEN 0
    ELSE IF lo = hi THEN (IF lo \in S THEN f[lo] ELSE 0)
    ELSE LET mid == (lo + hi) \div 2
         IN SumRange(f, S, lo, mid) + SumRange(f, S, mid + 1, hi)

\* The sum of a sequence
SumSeq(s) == SumRange(s, DOMAIN s, 1, Len(s))

\* The sum of f over the labels in S
SumSet(f, S) ==
    IF S = {} THEN 0
    ELSE LET lo == CHOOSE j \in S : \A k \in S : j <= k
             hi == CHOOSE j \in S : \A k \in S : j >= k
         IN SumRange(f, S, lo, hi)

\* np.arange(n)
NpArange(n) == [i \in 1..n |-> i - 1]

\* np.arange(a, b)
NpArange2(a, b) == [i \in 1..(IF b > a THEN b - a ELSE 0) |-> a + i - 1]

\* np.full(n, v)
NpFull(n, v) == [i \in 1..n |-> v]

\* np.hstack of a list of 1-d arrays
RECURSIVE NpHStack(_)
NpHStack(arrays) ==
    IF Len(arrays) = 0 THEN <<>>
    ELSE Head(arrays) \o NpHStack(Tail(arrays))

\* arr[1:]
DropFirst(arr) == IF Len(arr) = 0 THEN <<>> ELSE Tail(arr)

\* np.unique of an array: its values, ascending
RECURSIVE SortedSeq(_)
SortedSeq(S) ==
    IF S = {} THEN <<>>
    ELSE LET lo == CHOOSE j \in S : \A k \in S : j <= k
         IN <<lo>> \o SortedSeq(S \ {lo})

NpUnique(arr) == SortedSeq({arr[i] : i \in DOMAIN arr})

\* pd.Series(arr): RangeIndex 0..n-1
ToSeries(arr) == [i \in 0..(Len(arr) - 1) |-> arr[i + 1]]

\* Series.drop(labels=label)
SeriesDrop(s, label) == [i \in (DOMAIN s) \ {label} |-> s[i]]

\* a * b and a + b on Series: aligned on the index labels; a label that one
\* side lacks holds NaN
SeriesMul(a, b) == [i \in (DOMAIN a) \cap (DOMAIN b) |-> a[i] * b[i]]

SeriesAdd(a, b) == [i \in (DOMAIN a) \cap (DOMAIN b) |-> a[i] + b[i]]

\* np.power(a, 2)
SeriesSquare(a) == [i \in DOMAIN a |-> a[i] * a[i]]

\* cos and sin of q quarter turns
CosQ(q) == LET a == q % 4 IN IF a = 0 THEN 1 ELSE IF a = 2 THEN -1 ELSE 0

SinQ(q) == LET a == q % 4 IN IF a = 1 THEN 1 ELSE IF a = 3 THEN -1 ELSE 0

----------------------------------------------------------------------------
\* spectral_power

\* Number of (l, m) pairs with 0 <= m <= l <= degree
PackedSize(degree) == ((degree + 1) * (degree + 2)) \div 2

\* pyshtools' packed layout: position l*(l+1)/2 + m holds P(l, m)
PlmL(idx) == CHOOSE l \in 0..idx : (l * (l + 1)) \div 2 <= idx /\ idx < ((l + 1) * (l + 2)) \div 2

PlmM(idx) == idx - (PlmL(idx) * (PlmL(idx) + 1)) \div 2

\* The orthonormal associated Legendre function P(l, m) at x: a real number
\* computed by pyshtools, held here as an integer that varies with l, m and x
PlmValue(l, m, x) == (2 * l + 1) * (x + 2) + m

\* leg.legendre(degree, x, packed=True)
LegendrePacked(degree, x) ==
    [k \in 1..PackedSize(degree) |-> PlmValue(PlmL(k - 1), PlmM(k - 1), x)]

\* As VStackRaises, were an empty list stacked into an empty matrix
VStackNeverRaises(rows) == FALSE

\* np.vstack of an empty list raises ValueError
VStackRaises(rows) == Len(rows) = 0

\* order: m of every packed position
OrderArray(degree) ==
    LET degrees == NpArange(degree + 1)
    IN NpHStack([i \in 1..Len(degrees) |-> NpArange(degrees[i] + 1)])

\* deg: l of every packed position
DegArray(degree) ==
    LET degrees == NpArange(degree + 1)
    IN NpHStack([i \in 1..Len(degrees) |-> NpFull(degrees[i] + 1, degrees[i])])

\* x = cos(theta), theta = 90 - lat
CosTheta(lat) == CosQ(1 - lat)

\* clm = np.sum(plm * cos_m_phi, axis=1)
ClmArray(plmRows, order, samples) ==
    [k \in 1..Len(order) |->
        SumSeq([i \in 1..Len(samples) |-> plmRows[i][k] * CosQ(order[k] * samples[i][2])])]

\* slm = np.sum(plm * sin_m_phi, axis=1)
SlmArray(plmRows, order, samples) ==
    [k \in 1..Len(order) |->
        SumSeq([i \in 1..Len(samples) |-> plmRows[i][k] * SinQ(order[k] * samples[i][2])])]

\* s_power: for each unique degree d, 4*pi / (n_data * (2d + 1)) times the
\* sum of clm^2 + slm^2 over the positions with deg == d
PowerArray(deg, clm, slm, nData) ==
    LET degUnique == NpUnique(deg)
        sq(a, d) == SumSeq([k \in 1..Len(deg) |-> IF deg[k] = d THEN a[k] * a[k] ELSE 0])
    IN [j \in 1..Len(degUnique) |->
            [sumsq |-> sq(clm, degUnique[j]) + sq(slm, degUnique[j]),
             den |-> nData * (2 * degUnique[j] + 1)]]

\* As LmcsFrame, without the [1:] that drops the l = 0 entry
LmcsFrameKeepFirst(deg, order, clm, slm) ==
    [i \in 0..(Len(deg) - 1) |->
        [deg |-> deg[i + 1], ord |-> order[i + 1], clm |-> clm[i + 1], slm |-> slm[i + 1]]]

\* lmcs = pd.DataFrame({'deg': deg[1:], 'ord': order[1:], 'clm': clm[1:], 'slm': slm[1:]})
LmcsFrame(deg, order, clm, slm) ==
    LET d == DropFirst(deg)
        o == DropFirst(order)
        c == DropFirst(clm)
        s == DropFirst(slm)
    IN [i \in 0..(Len(d) - 1) |->
            [deg |-> d[i + 1], ord |-> o[i + 1], clm |-> c[i + 1], slm |-> s[i + 1]]]

\* power = pd.DataFrame({'Degree': deg_unique[1:], 'Power': s_power[1:]})
PowerFrame(deg, sPower) ==
    LET d == DropFirst(NpUnique(deg))
        p == DropFirst(sPower)
    IN [i \in 0..(Len(d) - 1) |-> [Degree |-> d[i + 1], Power |-> p[i + 1]]]

NoTables == [raised |-> TRUE, lmcs |-> <<>>, power |-> <<>>]

NotCalled == [raised |-> FALSE, lmcs |-> <<>>, power |-> <<>>]

\* spectral_power(lat, long, degree=degree)
SpectralPower(samples, degree) ==
    LET plmRows == [i \in 1..Len(samples) |-> LegendrePacked(degree, CosTheta(samples[i][1]))]
    IN IF VStackRaises(plmRows) THEN NoTables
       ELSE LET order == OrderArray(degree)
                deg == DegArray(degree)
                clm == ClmArray(plmRows, order, samples)
                slm == SlmArray(plmRows, order, samples)
                sPower == PowerArray(deg, clm, slm, Len(samples))
            IN [raised |-> FALSE,
                lmcs |-> LmcsFrame(deg, order, clm, slm),
                power |-> PowerFrame(deg, sPower)]

\* The degree spectral_power runs with: its parameter defaults to 20
SpectralDegree(arg) == IF arg.given THEN arg.val ELSE SpectralDefaultDegree

----------------------------------------------------------------------------
\* power_corr

\* Levels c (in thousandths) whose float product c*100 falls just below the
\* integer, so that int(c*100) is one less: 0.29, 0.57, 0.58
FloatShort == {290, 570, 580}

\* int(conf_level*100)
PctOf(c) == IF c \in FloatShort THEN (c \div 10) - 1 ELSE c \div 10

\* confidence_levels = [0.8, 0.95, 0.99] when None
DefaultLevels == <<800, 950, 990>>

CorrLevels(arg) == IF arg.given THEN arg.val ELSE DefaultLevels

\* The degree power_corr runs with: its parameter defaults to 0
CorrDegree(arg) == IF arg.given THEN arg.val ELSE CorrDefaultDegree

\* input_arrays = [np.full(x+1, x) for x in np.arange(degree+1)]
InputArrays(degree) ==
    LET xs == NpArange(degree + 1)
    IN [i \in 1..Len(xs) |-> NpFull(xs[i] + 1, xs[i])]

\* As DegSeries, without the drop of the first label
DegSeriesKeepFirst(degree) == ToSeries(NpHStack(InputArrays(degree)))

\* deg = pd.Series(np.hstack(input_arrays)).drop(labels=0)
DegSeries(degree) == SeriesDrop(ToSeries(NpHStack(InputArrays(degree))), 0)

\* As NumSeries, with the sine term subtracted
NumSeriesMinus(clm, slm, glm, hlm) ==
    SeriesAdd(SeriesMul(clm, glm), SeriesMul(SeriesMul(slm, hlm), [i \in DOMAIN slm |-> -1]))

\* As NumSeries, with cosine paired with sine
NumSeriesCrossed(clm, slm, glm, hlm) == SeriesAdd(SeriesMul(clm, hlm), SeriesMul(slm, glm))

\* num = (clm * glm) + (slm * hlm)
NumSeries(clm, slm, glm, hlm) == SeriesAdd(SeriesMul(clm, glm), SeriesMul(slm, hlm))

\* cs_sos = np.power(clm, 2) + np.power(slm, 2)
CsSos(clm, slm) == SeriesAdd(SeriesSquare(clm), SeriesSquare(slm))

\* As GhSos, without the sine coefficients
GhSosCosineOnly(glm, hlm) == SeriesSquare(glm)

\* gh_sos = np.power(glm, 2) + np.power(hlm, 2)
GhSos(glm, hlm) == SeriesAdd(SeriesSquare(glm), SeriesSquare(hlm))

\* pd.concat([deg, num, cs_sos, gh_sos], axis=1) joins the four Series on
\* their index labels; groupby('deg').sum() then makes one row per value of
\* deg, ascending, leaves out the rows whose deg is NaN and adds up the
\* values that are not NaN
GroupBySum(deg, num, cs, gh) ==
    LET keys == SortedSeq({deg[i] : i \in DOMAIN deg})
        members(d) == {i \in DOMAIN deg : deg[i] = d}
    IN [j \in 1..Len(keys) |->
            [key |-> keys[j],
             num |-> SumSet(num, members(keys[j]) \cap DOMAIN num),
             cs_sos |-> SumSet(cs, members(keys[j]) \cap DOMAIN cs),
             gh_sos |-> SumSet(gh, members(keys[j]) \cap DOMAIN gh)]]

\* corr['r'] = corr['num'] / np.sqrt(np.multiply(corr['cs_sos'], corr['gh_sos']))
RColumn(grouped) ==
    [j \in 1..Len(grouped) |->
        [num |-> grouped[j].num, rad |-> grouped[j].cs_sos * grouped[j].gh_sos]]

\* corr['deg'] = np.arange(1, degree + 1)
DegColumn(degree) == NpArange2(1, degree + 1)

\* Assigning an array as a column raises ValueError unless it has one value
\* per row
AssignRaises(column, nRows) == Len(column) # nRows

\* t_ppf_val = sts.t.ppf(1 - alpha / 2, df=corr['deg'] * 2), alpha = 1 - conf_level;
\* corr[max_col] = t_ppf_val * np.sqrt(1 / ((2 * corr['deg']) + t_ppf_val^2))
MaxColumn(degCol, c) ==
    [j \in 1..Len(degCol) |-> [sign |-> 1, q |-> 2000 - (1000 - c), df |-> degCol[j] * 2]]

\* As MinColumn, without the change of sign
MinColumnCopy(maxCol) == maxCol

\* corr[min_col] = corr[max_col] * -1
MinColumn(maxCol) ==
    [j \in 1..Len(maxCol) |-> [sign |-> -1 * maxCol[j].sign, q |-> maxCol[j].q, df |-> maxCol[j].df]]

ColName(kind, pct) == [kind |-> kind, pct |-> pct]

\* max_col = f"max{int(conf_level*100)}"
MaxColName(c) == ColName("max", PctOf(c))

\* min_col = f"min{int(conf_level*100)}"
MinColName(c) == ColName("min", PctOf(c))

\* corr[name] = column: a new column, or the column of that name overwritten
SetColumn(cols, name, column) ==
    [n \in (DOMAIN cols) \cup {name} |-> IF n = name THEN column ELSE cols[n]]

\* The loop over confidence_levels: the frame's columns and output_cols
\* after the levels from position i on
RECURSIVE LevelsLoop(_, _, _, _)
LevelsLoop(levels, i, cols, outputCols) ==
    IF i > Len(levels) THEN [cols |-> cols, outputCols |-> outputCols]
    ELSE LET c == levels[i]
             maxCol == MaxColumn(cols[ColName("deg", 0)], c)
             withMax == SetColumn(cols, MaxColName(c), maxCol)
             withMin == SetColumn(withMax, MinColName(c), MinColumn(withMax[MaxColName(c)]))
         IN LevelsLoop(levels, i + 1, withMin, outputCols \o <<MinColName(c), MaxColName(c)>>)

\* corr = pd.concat([corr[col] for col in output_cols], axis=1)
OutputTable(cols, outputCols) ==
    [p \in 1..Len(outputCols) |-> [name |-> outputCols[p], values |-> cols[outputCols[p]]]]

CorrRaised == [raised |-> TRUE, grouped |-> <<>>, table |-> <<>>]

CorrNotCalled == [raised |-> FALSE, grouped |-> <<>>, table |-> <<>>]

\* power_corr(clm, slm, glm, hlm, degree=degree, confidence_levels=levels).
\* grouped is the frame after groupby().sum(), kept beside the returned table
PowerCorr(clm, slm, glm, hlm, degree, levels) ==
    LET grouped == GroupBySum(DegSeries(degree), NumSeries(clm, slm, glm, hlm),
                              CsSos(clm, slm), GhSos(glm, hlm))
        degCol == DegColumn(degree)
    IN IF AssignRaises(degCol, Len(grouped)) THEN CorrRaised
       ELSE LET cols0 == SetColumn(SetColumn(<<>>, ColName("r", 0), RColumn(grouped)),
                                   ColName("deg", 0), degCol)
                loop == LevelsLoop(levels, 1, cols0, <<ColName("deg", 0), ColName("r", 0)>>)
            IN [raised |-> FALSE,
                grouped |-> grouped,
                table |-> OutputTable(loop.cols, loop.outputCols)]

\* lmcs['clm'] and the like: a column of the coefficient table
Column(frame, name) == [i \in DOMAIN frame |-> frame[i][name]]

----------------------------------------------------------------------------
\* Inputs

\* Sample points <<lat, long>> in quarter turns: on the equator at 0 and 90
\* degrees east, and the north pole
SamplePoints == {<<0, 0>>, <<0, 1>>, <<1, 2>>}

SampleSeqs(maxLen) == UNION {[1..n -> SamplePoints] : n \in 0..maxLen}

\* Levels a caller asks for, in thousandths
Levels == {280, 290, 950, 955}

LevelSeqs == UNION {[1..n -> Levels] : n \in 0..MaxLevels}

\* A coefficient array of a caller: n values set by seed and sign, as a
\* Series whose index starts at base
GenValue(seed, k) == IF seed = 0 THEN 0 ELSE ((seed * k + seed * seed) % 5) - 2

GenSeries(seed, sign, n, base) == [i \in base..(base + n - 1) |-> sign * GenValue(seed, i - base)]

\* Number of coefficient entries for degrees 1..degree
CanonicalLength(degree) == PackedSize(degree) - 1

Given(v) == [given |-> TRUE, val |-> v]

Omitted == [given |-> FALSE, val |-> 0]

LevelsNone == [given |-> FALSE, val |-> <<>>]

NoSeries == [clm |-> <<>>, slm |-> <<>>, glm |-> <<>>, hlm |-> <<>>]

\* The pipeline on two datasets with a given degree
InitPipeline ==
    /\ mode = "pipeline"
    /\ samplesA \in SampleSeqs(MaxSamples)
    /\ samplesB \in SampleSeqs(MaxSamples)
    /\ degArg \in {Given(d) : d \in 0..MaxDegree}
    /\ levelsArg = LevelsNone
    /\ cin = NoSeries

\* The pipeline with the degree left out, on one sample per dataset
InitPipelineDefault ==
    /\ mode = "pipeline"
    /\ samplesA \in [1..1 -> SamplePoints]
    /\ samplesB \in [1..1 -> SamplePoints]
    /\ degArg = Omitted
    /\ levelsArg = LevelsNone
    /\ cin = NoSeries

\* power_corr alone, on four caller-made Series of the canonical length for
\* a degree, with the degree given or left out; each dataset's Series are
\* indexed from 0 (as pd.Series(values) is) or from 1
InitDirectValues ==
    /\ mode = "direct"
    /\ samplesA = <<>>
    /\ samplesB = <<>>
    /\ levelsArg = LevelsNone
    /\ \E d \in 0..MaxDegree, base1 \in {0, 1}, base2 \in {0, 1},
          s1 \in 0..MaxSeed, s2 \in 0..MaxSeed, s3 \in 0..MaxSeed, s4 \in 0..MaxSeed,
          g3 \in {-1, 1}, g4 \in {-1, 1} :
          /\ degArg \in (IF d >= 1 THEN {Given(d), Omitted} ELSE {Given(d)})
          /\ cin = [clm |-> GenSeries(s1, 1, CanonicalLength(d), base1),
                    slm |-> GenSeries(s2, 1, CanonicalLength(d), base1),
                    glm |-> GenSeries(s3, g3, CanonicalLength(d), base2),
                    hlm |-> GenSeries(s4, g4, CanonicalLength(d), base2)]

\* power_corr alone, with a list of confidence levels
InitDirectLevels ==
    /\ mode = "direct"
    /\ samplesA = <<>>
    /\ samplesB = <<>>
    /\ levelsArg \in {[given |-> TRUE, val |-> ls] : ls \in LevelSeqs}
    /\ \E d \in 1..MaxDegree :
          /\ degArg = Given(d)
          /\ cin = [clm |-> GenSeries(1, 1, CanonicalLength(d), 0),
                    slm |-> GenSeries(2, 1, CanonicalLength(d), 0),
                    glm |-> GenSeries(2, 1, CanonicalLength(d), 0),
                    hlm |-> GenSeries(1, -1, CanonicalLength(d), 0)]

Init ==
    /\ pc = "start"
    /\ resA = NotCalled
    /\ resB = NotCalled
    /\ corr = CorrNotCalled
    /\ \/ InitPipeline
       \/ InitPipelineDefault
       \/ InitDirectValues
       \/ InitDirectLevels

----------------------------------------------------------------------------
\* Steps

\* results_a = spectral_power(lat_a, long_a, degree=L)
SpectralPowerA ==
    /\ mode = "pipeline"
    /\ pc = "start"
    /\ resA' = SpectralPower(samplesA, SpectralDegree(degArg))
    /\ pc' = IF resA'.raised THEN "error" ELSE "expandedA"
    /\ UNCHANGED <<mode, samplesA, samplesB, degArg, levelsArg, resB, cin, corr>>

\* results_b = spectral_power(lat_b, long_b, degree=L)
SpectralPowerB ==
    /\ mode = "pipeline"
    /\ pc = "expandedA"
    /\ resB' = SpectralPower(samplesB, SpectralDegree(degArg))
    /\ pc' = IF resB'.raised THEN "error" ELSE "expandedB"
    /\ UNCHANGED <<mode, samplesA, samplesB, degArg, levelsArg, resA, cin, corr>>

\* power_corr(a['clm'], a['slm'], b['clm'], b['slm'], degree=L), a and b
\* the 'lmcs' tables of the two results
PowerCorrPipeline ==
    /\ mode = "pipeline"
    /\ pc = "expandedB"
    /\ cin' = [clm |-> Column(resA.lmcs, "clm"), slm |-> Column(resA.lmcs, "slm"),
               glm |-> Column(resB.lmcs, "clm"), hlm |-> Column(resB.lmcs, "slm")]
    /\ corr' = PowerCorr(cin'.clm, cin'.slm, cin'.glm, cin'.hlm,
                         CorrDegree(degArg), CorrLevels(levelsArg))
    /\ pc' = IF corr'.raised THEN "error" ELSE "done"
    /\ UNCHANGED <<mode, samplesA, samplesB, degArg, levelsArg, resA, resB>>

\* power_corr on the caller's four Series
PowerCorrCall ==
    /\ mode = "direct"
    /\ pc = "start"
    /\ corr' = PowerCorr(cin.clm, cin.slm, cin.glm, cin.hlm,
                         CorrDegree(degArg), CorrLevels(levelsArg))
    /\ pc' = IF corr'.raised THEN "error" ELSE "done"
    /\ UNCHANGED <<mode, samplesA, samplesB, degArg, levelsArg, resA, resB, cin>>

Next ==
    \/ SpectralPowerA
    \/ SpectralPowerB
    \/ PowerCorrPipeline
    \/ PowerCorrCall

Spec == Init /\ [][Next]_vars

----------------------------------------------------------------------------
\* What the properties speak of

\* power_corr has been called and has ended
CorrCalled == pc = "done" \/ corr.raised

\* spectral_power has been called on dataset A, on dataset B
CalledA == mode = "pipeline" /\ pc # "start"

CalledB == mode = "pipeline" /\ pc # "start" /\ pc # "expandedA" /\ ~resA.raised

\* The rows of the returned table: one per value of its first column
RowCount(table) == Len(table[1].values)

\* The r of row j of the returned table
RAt(j) == corr.table[2].values[j]

\* num / sqrt(rad) = 1, = -1, within [-1, 1]
IsOne(r) == r.num > 0 /\ r.num * r.num = r.rad

IsMinusOne(r) == r.num < 0 /\ r.num * r.num = r.rad

InUnitInterval(r) == r.rad > 0 /\ r.num * r.num <= r.rad

SeriesNeg(a) == [i \in DOMAIN a |-> -1 * a[i]]

\* The sum of f over the coefficient entries that the table lmcs labels with
\* degree l
DegreeEntries(lmcs, l) == {k \in DOMAIN lmcs : lmcs[k].deg = l}

SumOfDegree(f, lmcs, l) == SumSet(f, DegreeEntries(lmcs, l))

\* The four arrays have one entry per (l, m), l = 1..degree, m = 0..l
CanonicalInputs(degree) ==
    \A name \in {"clm", "slm", "glm", "hlm"} :
        Cardinality(DOMAIN cin[name]) = CanonicalLength(degree)

\* C(l, m) and S(l, m) of a dataset, from their definition
CoefC(samples, l, m) ==
    SumSeq([i \in 1..Len(samples) |->
        PlmValue(l, m, CosTheta(samples[i][1])) * CosQ(m * samples[i][2])])

CoefS(samples, l, m) ==
    SumSeq([i \in 1..Len(samples) |->
        PlmValue(l, m, CosTheta(samples[i][1])) * SinQ(m * samples[i][2])])

\* The canonical packing without its l = 0 entry: for l = 1..degree in
\* order, every m = 0..l in order
RECURSIVE CanonicalPairs(_)
CanonicalPairs(degree) ==
    IF degree <= 0 THEN <<>>
    ELSE CanonicalPairs(degree - 1) \o [i \in 1..(degree + 1) |-> [deg |-> degree, ord |-> i - 1]]

----------------------------------------------------------------------------
\* C1 claims that in the pipeline, for every degree l in 1..L, the sums
\* Num(l), Sos1(l) and Sos2(l) of power_corr are taken over exactly the l+1
\* coefficient entries that spectral_power labelled with degree l.  The code
\* joins the label Series (index 1..n) and the coefficient Series (index
\* 0..n-1) on their index, so every entry gets the label of its predecessor.
C1_SumsOverOwnDegree ==
    (mode = "pipeline" /\ pc = "done" /\ degArg.given /\ degArg.val >= 1) =>
        /\ Len(corr.grouped) = degArg.val
        /\ \A l \in 1..degArg.val :
              /\ Cardinality(DegreeEntries(resA.lmcs, l)) = l + 1
              /\ corr.grouped[l].num =
                    SumOfDegree(NumSeries(cin.clm, cin.slm, cin.glm, cin.hlm), resA.lmcs, l)
              /\ corr.grouped[l].cs_sos = SumOfDegree(CsSos(cin.clm, cin.slm), resA.lmcs, l)
              /\ corr.grouped[l].gh_sos = SumOfDegree(GhSos(cin.glm, cin.hlm), resB.lmcs, l)

\* C2 claims that with the degree left out both functions run as with
\* degree=20, power_corr then returning 20 rows.  power_corr's parameter
\* defaults to 0.
C2_OmittedDegreeIsTwenty ==
    ~degArg.given =>
        /\ CalledA => resA = SpectralPower(samplesA, CorrDocumentedDegree)
        /\ CorrCalled =>
              /\ corr = PowerCorr(cin.clm, cin.slm, cin.glm, cin.hlm,
                                  CorrDocumentedDegree, CorrLevels(levelsArg))
              /\ ~corr.raised
              /\ RowCount(corr.table) = CorrDocumentedDegree

\* C3: with the second dataset equal to the first, every degree whose Sos1
\* is positive has Num = Sos1 = Sos2 and r = 1.
C3_SelfCorrelationIsOne ==
    (pc = "done" /\ cin.glm = cin.clm /\ cin.hlm = cin.slm) =>
        \A j \in 1..Len(corr.grouped) :
            corr.grouped[j].cs_sos > 0 =>
                /\ corr.grouped[j].num = corr.grouped[j].cs_sos
                /\ corr.grouped[j].gh_sos = corr.grouped[j].cs_sos
                /\ IsOne(RAt(j))

C3_Witness ==
    /\ pc = "done"
    /\ cin.glm = cin.clm
    /\ cin.hlm = cin.slm
    /\ Len(corr.grouped) = MaxDegree
    /\ \A j \in 1..Len(corr.grouped) : corr.grouped[j].cs_sos > 0 /\ IsOne(RAt(j))

\* C4: with the second dataset the negation of the first, every degree whose
\* Sos1 is positive has Num = -Sos1, Sos2 = Sos1 and r = -1.
C4_NegatedCorrelationIsMinusOne ==
    (pc = "done" /\ cin.glm = SeriesNeg(cin.clm) /\ cin.hlm = SeriesNeg(cin.slm)) =>
        \A j \in 1..Len(corr.grouped) :
            corr.grouped[j].cs_sos > 0 =>
                /\ corr.grouped[j].num = -1 * corr.grouped[j].cs_sos
                /\ corr.grouped[j].gh_sos = corr.grouped[j].cs_sos
                /\ IsMinusOne(RAt(j))

C4_Witness ==
    /\ pc = "done"
    /\ cin.glm = SeriesNeg(cin.clm)
    /\ cin.hlm = SeriesNeg(cin.slm)
    /\ Len(corr.grouped) = MaxDegree
    /\ \A j \in 1..Len(corr.grouped) : corr.grouped[j].cs_sos > 0 /\ IsMinusOne(RAt(j))

\* C5: for L >= 1 and four arrays of the canonical length, power_corr
\* returns L rows whose deg column is 1, 2, ..., L.
C5_RowsAreDegreesOneToL ==
    (CorrCalled /\ CorrDegree(degArg) >= 1 /\ CanonicalInputs(CorrDegree(degArg))) =>
        /\ ~corr.raised
        /\ corr.table[1].name = ColName("deg", 0)
        /\ corr.table[1].values = [j \in 1..CorrDegree(degArg) |-> j]
        /\ \A p \in 1..Len(corr.table) : Len(corr.table[p].values) = CorrDegree(degArg)
        /\ Len(corr.grouped) = CorrDegree(degArg)
        /\ \A j \in 1..Len(corr.grouped) : corr.grouped[j].key = j

C5_Witness ==
    /\ pc = "done"
    /\ mode = "direct"
    /\ CorrDegree(degArg) = MaxDegree
    /\ CanonicalInputs(MaxDegree)
    /\ corr.table[1].values = [j \in 1..MaxDegree |-> j]

\* C6 claims that for n levels the table has 2 + 2n columns deg, r and then,
\* for the i-th level, its min column followed by its max column, holding
\* the bounds of that level.  Two levels with the same int(c*100) share one
\* pair of column names, and the later level's bounds overwrite the earlier's.
C6_EachLevelHasItsBounds ==
    (pc = "done" /\ levelsArg.given) =>
        LET levels == levelsArg.val
            degCol == corr.table[1].values
        IN /\ Len(corr.table) = 2 + 2 * Len(levels)
           /\ corr.table[1].name = ColName("deg", 0)
           /\ corr.table[2].name = ColName("r", 0)
           /\ \A i \in 1..Len(levels) :
                 /\ corr.table[2 * i + 1].name.kind = "min"
                 /\ corr.table[2 * i + 2].name.kind = "max"
                 /\ corr.table[2 * i + 2].values = MaxColumn(degCol, levels[i])
                 /\ corr.table[2 * i + 1].values = MinColumn(MaxColumn(degCol, levels[i]))

\* The tables of a result are those of the samples for the degree: the
\* coefficient rows follow the canonical packing without l = 0 and hold C
\* and S of their (l, m); the power rows are the degrees 1..degree
TablesOf(res, samples, degree) ==
    LET pairs == CanonicalPairs(degree)
    IN /\ ~res.raised
       /\ DOMAIN res.lmcs = 0..(CanonicalLength(degree) - 1)
       /\ Len(pairs) = CanonicalLength(degree)
       /\ \A k \in DOMAIN res.lmcs :
             /\ res.lmcs[k].deg = pairs[k + 1].deg
             /\ res.lmcs[k].ord = pairs[k + 1].ord
             /\ res.lmcs[k].clm = CoefC(samples, pairs[k + 1].deg, pairs[k + 1].ord)
             /\ res.lmcs[k].slm = CoefS(samples, pairs[k + 1].deg, pairs[k + 1].ord)
       /\ DOMAIN res.power = 0..(degree - 1)
       /\ \A j \in DOMAIN res.power : res.power[j].Degree = j + 1

\* C7: for N >= 1 samples spectral_power returns a coefficient table whose
\* rows are the canonical packing without l = 0, row k holding C and S of
\* the (l, m) it is labelled with, and a power table with Degree = 1..L.
C7_CoefficientAndPowerTables ==
    /\ (CalledA /\ Len(samplesA) >= 1) => TablesOf(resA, samplesA, SpectralDegree(degArg))
    /\ (CalledB /\ Len(samplesB) >= 1) => TablesOf(resB, samplesB, SpectralDegree(degArg))

C7_Witness ==
    /\ CalledA
    /\ Len(samplesA) = MaxSamples
    /\ degArg = Given(MaxDegree)
    /\ Cardinality(DOMAIN resA.lmcs) = CanonicalLength(MaxDegree)
    /\ Cardinality(DOMAIN resA.power) = MaxDegree
    /\ \E k \in DOMAIN resA.lmcs : resA.lmcs[k].slm # 0

\* C8 as stated: with zero samples spectral_power returns its two tables,
\* the Power values non-finite.
C8_EmptyInputReturns ==
    (CalledA /\ Len(samplesA) = 0) =>
        /\ ~resA.raised
        /\ DOMAIN resA.power = 0..(SpectralDegree(degArg) - 1)
        /\ \A j \in DOMAIN resA.power : resA.power[j].Power.den = 0

\* C8 amended: with zero samples spectral_power raises where it stacks the
\* Legendre rows and returns no table; no Power value is ever divided by
\* N = 0.
C8_EmptyInputRaises ==
    /\ (CalledA /\ Len(samplesA) = 0) => resA = NoTables
    /\ (CalledB /\ Len(samplesB) = 0) => resB = NoTables
    /\ \A j \in DOMAIN resA.power : resA.power[j].Power.den > 0
    /\ \A j \in DOMAIN resB.power : resB.power[j].Power.den > 0

C8_Witness ==
    /\ CalledB
    /\ Len(samplesA) = 1
    /\ Len(samplesB) = 0
    /\ degArg = Given(MaxDegree)
    /\ ~resA.raised
    /\ resB.raised
    /\ pc = "error"

\* C9: in every returned table, the min column of a level is the negation
\* of the max column of that level, row by row.
C9_BoundsAreSymmetric ==
    (pc = "done") =>
        \A p \in 1..Len(corr.table), q \in 1..Len(corr.table) :
            (/\ corr.table[p].name.kind = "min"
             /\ corr.table[q].name.kind = "max"
             /\ corr.table[p].name.pct = corr.table[q].name.pct) =>
                \A j \in 1..RowCount(corr.table) :
                    /\ corr.table[p].values[j].sign = -1 * corr.table[q].values[j].sign
                    /\ corr.table[p].values[j].q = corr.table[q].values[j].q
                    /\ corr.table[p].values[j].df = corr.table[q].values[j].df

C9_Witness ==
    /\ pc = "done"
    /\ levelsArg.given
    /\ Len(levelsArg.val) = MaxLevels
    /\ RowCount(corr.table) = MaxDegree
    /\ Len(corr.table) = 2 + 2 * MaxLevels
    /\ corr.table[3].values[1].sign = -1
    /\ corr.table[4].values[1].sign = 1

\* C10: every degree row has Num^2 <= Sos1 * Sos2, so r lies within [-1, 1]
\* wherever both sums of squares are positive.
C10_CorrelationWithinUnitInterval ==
    (pc = "done") =>
        \A j \in 1..Len(corr.grouped) :
            /\ corr.grouped[j].num * corr.grouped[j].num
                  <= corr.grouped[j].cs_sos * corr.grouped[j].gh_sos
            /\ (corr.grouped[j].cs_sos > 0 /\ corr.grouped[j].gh_sos > 0) =>
                  InUnitInterval(RAt(j))

C10_Witness ==
    /\ pc = "done"
    /\ \E j \in 1..Len(corr.grouped) :
          /\ corr.grouped[j].cs_sos > 0
          /\ corr.grouped[j].gh_sos > 0
          /\ corr.grouped[j].num # 0
          /\ RAt(j).num * RAt(j).num < RAt(j).rad

====
